---- MODULE Spec2Model ----
(***************************************************************************)
(* nanohttp: the Status lookup tables and the Response wire format         *)
(* (construction, builder chain, to_string, parse).                        *)
(*                                                                         *)
(* A Rust &str / String is modelled as a sequence of characters.  Each     *)
(* character is a one-character TLA+ string; "\r" and "\n" are carriage    *)
(* return and line feed, and EAcute stands for U+00E9, a character whose   *)
(* UTF-8 encoding is two bytes long.  The str patterns used by the code    *)
(* ("\r\n\r\n", "\r\n", " ", "/", ": ") are ASCII, and UTF-8 is            *)
(* self-synchronising, so matching them character by character is the      *)
(* same as matching them byte by byte.                                     *)
(***************************************************************************)
EXTENDS Integers, Sequences, FiniteSets, TLC

VARIABLES
    phase,      \* "idle", "built", "serialized", "received", "parsed", "status"
    resp,       \* the Response value the caller currently owns
    made,       \* history: the factory call that started the chain
    base,       \* history: the value that factory call returned
    pushed,     \* history: headers handed to header()/cookie() since, in call order
    last_status,\* history: the Status of the last status() call ("Ok" before any)
    sent,       \* TRUE iff wire is resp.to_string()
    wire,       \* the text handed to Response::parse
    result,     \* what Response::parse(wire) returned
    code_in,    \* the text handed to Status::from_str
    code_out    \* what Status::from_str(code_in) returned

vars == <<phase, resp, made, base, pushed, last_status, sent, wire, result,
          code_in, code_out>>

----------------------------------------------------------------------------
(* Bounds of the model.                                                    *)

MaxChunks == 2      \* a body is at most this many chunks of BodyChunks
MaxHeaders == 2     \* header()/cookie() calls in one builder chain
MaxLines == 3       \* lines after the start line of a received wire text
MaxTokenLen == 4    \* characters of a text handed to Status::from_str

----------------------------------------------------------------------------
(* Text helpers.                                                           *)

EAcute == "U+00E9"
SP == <<" ">>
CRLF == <<"\r", "\n">>
CRLFCRLF == <<"\r", "\n", "\r", "\n">>
COLON_SP == <<":", " ">>
SLASH == <<"/">>

\* str::len(): the length in bytes of the UTF-8 encoding.
RECURSIVE str_len(_)
str_len(s) ==
    IF s = <<>> THEN 0
    ELSE (IF Head(s) = EAcute THEN 2 ELSE 1) + str_len(Tail(s))

\* Does pat occur in s at index i (1-based)?
MatchAt(s, pat, i) == \A k \in 1..Len(pat) : s[i + k - 1] = pat[k]

\* The index of the first occurrence of pat in s at or after index from,
\* 0 when there is none.
find_from(s, pat, from) ==
    LET at == {i \in from..(Len(s) - Len(pat) + 1) : MatchAt(s, pat, i)}
    IN  IF at = {} THEN 0 ELSE CHOOSE i \in at : \A j \in at : i <= j

\* str::split(pat): the pieces between successive non-overlapping matches of
\* pat, searched left to right.  Always yields at least one piece; the text
\* after the last match (possibly empty) is the last piece.
RECURSIVE split_from(_, _, _)
split_from(s, pat, start) ==
    LET i == find_from(s, pat, start)
    IN  IF i = 0
        THEN <<SubSeq(s, start, Len(s))>>
        ELSE <<SubSeq(s, start, i - 1)>> \o split_from(s, pat, i + Len(pat))

split(s, pat) == split_from(s, pat, 1)

\* Iterator::next() on the n-th call: Some(piece) or None.
Some(v) == <<v>>
None == <<>>
nth_next(pieces, n) == IF n <= Len(pieces) THEN Some(pieces[n]) ELSE None

\* <integer>.to_string(): decimal digits, no sign, no leading zero.
Digit(d) == CASE d = 0 -> "0" [] d = 1 -> "1" [] d = 2 -> "2" [] d = 3 -> "3"
              [] d = 4 -> "4" [] d = 5 -> "5" [] d = 6 -> "6" [] d = 7 -> "7"
              [] d = 8 -> "8" [] d = 9 -> "9"

RECURSIVE int_to_string(_)
int_to_string(n) ==
    IF n < 10 THEN <<Digit(n)>>
    ELSE int_to_string(n \div 10) \o <<Digit(n % 10)>>

----------------------------------------------------------------------------
(* Result<T, Error>.  Error is { err_type, msg }.                          *)

Ok(v) == [ok |-> TRUE, val |-> v]
Err(kind, msg) == [ok |-> FALSE, err_type |-> kind, msg |-> msg]

----------------------------------------------------------------------------
(* status.rs                                                               *)

Status ==
    {"SwitchingProtocols", "Ok", "SeeOther", "NotFound", "InternalServerError",
     "BadRequest", "Unauthorized", "Forbidden", "NotAllowed"}

Status_code(s) ==
    CASE s = "SwitchingProtocols" -> 101
      [] s = "Ok" -> 200
      [] s = "SeeOther" -> 303
      [] s = "BadRequest" -> 400
      [] s = "Unauthorized" -> 401
      [] s = "Forbidden" -> 403
      [] s = "NotFound" -> 404
      [] s = "NotAllowed" -> 405
      [] s = "InternalServerError" -> 500

Status_message(s) ==
    CASE s = "SwitchingProtocols" -> <<"S", "W", "I", "T", "C", "H", "I", "N", "G", " ", "P", "R", "O", "T", "O", "C", "O", "L", "S">>
      [] s = "Ok" -> <<"O", "K">>
      [] s = "SeeOther" -> <<"S", "E", "E", " ", "O", "T", "H", "E", "R">>
      [] s = "BadRequest" -> <<"B", "A", "D", " ", "R", "E", "Q", "U", "E", "S", "T">>
      [] s = "Unauthorized" -> <<"U", "N", "A", "U", "T", "H", "O", "R", "I", "Z", "E", "D">>
      [] s = "Forbidden" -> <<"F", "O", "R", "B", "I", "D", "D", "E", "N">>
      [] s = "NotFound" -> <<"N", "O", "T", " ", "F", "O", "U", "N", "D">>
      [] s = "NotAllowed" -> <<"N", "O", "T", " ", "A", "L", "L", "O", "W", "E", "D">>
      [] s = "InternalServerError" -> <<"I", "N", "T", "E", "R", "N", "A", "L", " ", "S", "E", "R", "V", "E", "R", " ", "E", "R", "R", "O", "R">>

Status_to_string(s) == int_to_string(Status_code(s)) \o SP \o Status_message(s)

\* Mutant of Status_from_str: the arms of "403" and "404" exchanged.
Status_from_str_swapped(code) ==
    LET parser_err == Err("ParserError", "Invalid status format")
    IN  CASE code = <<"1", "0", "1">> -> Ok("SwitchingProtocols")
          [] code = <<"2", "0", "0">> -> Ok("Ok")
          [] code = <<"3", "0", "3">> -> Ok("SeeOther")
          [] code = <<"4", "0", "0">> -> Ok("BadRequest")
          [] code = <<"4", "0", "1">> -> Ok("Unauthorized")
          [] code = <<"4", "0", "3">> -> Ok("NotFound")
          [] code = <<"4", "0", "4">> -> Ok("Forbidden")
          [] code = <<"4", "0", "5">> -> Ok("NotAllowed")
          [] code = <<"5", "0", "0">> -> Ok("InternalServerError")
          [] OTHER -> parser_err

Status_from_str(code) ==
    LET parser_err == Err("ParserError", "Invalid status format")
    IN  CASE code = <<"1", "0", "1">> -> Ok("SwitchingProtocols")
          [] code = <<"2", "0", "0">> -> Ok("Ok")
          [] code = <<"3", "0", "3">> -> Ok("SeeOther")
          [] code = <<"4", "0", "0">> -> Ok("BadRequest")
          [] code = <<"4", "0", "1">> -> Ok("Unauthorized")
          [] code = <<"4", "0", "3">> -> Ok("Forbidden")
          [] code = <<"4", "0", "4">> -> Ok("NotFound")
          [] code = <<"4", "0", "5">> -> Ok("NotAllowed")
          [] code = <<"5", "0", "0">> -> Ok("InternalServerError")
          [] OTHER -> parser_err

----------------------------------------------------------------------------
(* header.rs is not among the sources; Header is the key/value pair the    *)
(* specification describes: new(key, value) and the rendering              *)
(* key + ": " + value with no escaping.                                    *)

Header_new(key, value) == [key |-> key, value |-> value]

Header_to_string(h) == h.key \o COLON_SP \o h.value

----------------------------------------------------------------------------
(* response.rs: factories and builder calls                                *)

Response_empty ==
    [scheme |-> <<"H", "T", "T", "P">>, version |-> <<"1", ".", "1">>, status |-> "Ok",
     headers |-> <<>>, content |-> <<>>]

Response_body(content) ==
    [scheme |-> <<"H", "T", "T", "P">>, version |-> <<"1", ".", "1">>, status |-> "Ok",
     headers |-> <<>>, content |-> content]

Response_status(self, status) == [self EXCEPT !.status = status]

\* Mutant of Response_header: a header whose key is already present replaces
\* the first entry with that key instead of being appended.
Response_header_replacing(self, header) ==
    LET same == {i \in 1..Len(self.headers) : self.headers[i].key = header.key}
    IN  IF same = {}
        THEN [self EXCEPT !.headers = Append(self.headers, header)]
        ELSE [self EXCEPT !.headers[CHOOSE i \in same : \A j \in same : i <= j] = header]

Response_header(self, header) ==
    LET headers == Append(self.headers, header)
    IN  [self EXCEPT !.headers = headers]

Response_cookie(self, content) ==
    Response_header(self, Header_new(<<"S", "e", "t", "-", "C", "o", "o", "k", "i", "e">>, content))

\* Mutant of content_len: the number of characters, not of bytes.
content_len_chars(content) == Len(content)

content_len(content) == str_len(content)

Response_content(content, content_type) ==
    LET content_length == content_len(content)
    IN  Response_header(
            Response_header(Response_body(content),
                            Header_new(<<"C", "o", "n", "t", "e", "n", "t", "-", "T", "y", "p", "e">>, content_type)),
            Header_new(<<"C", "o", "n", "t", "e", "n", "t", "-", "L", "e", "n", "g", "t", "h">>, int_to_string(content_length)))

Response_html(content) == Response_content(content, <<"t", "e", "x", "t", "/", "h", "t", "m", "l">>)

Response_json(content) == Response_content(content, <<"a", "p", "p", "l", "i", "c", "a", "t", "i", "o", "n", "/", "j", "s", "o", "n">>)

----------------------------------------------------------------------------
(* response.rs: to_string                                                  *)

\* self.headers.iter().fold(String::new(), |a, b| a + &b.to_string() + "\r\n")
RECURSIVE fold_headers(_, _)
fold_headers(a, headers) ==
    IF headers = <<>> THEN a
    ELSE fold_headers(a \o Header_to_string(Head(headers)) \o CRLF, Tail(headers))

\* Mutant of format_response: a line terminator after the content.
format_response_terminated(scheme, version, status, headers, content) ==
    scheme \o SLASH \o version \o SP \o status \o CRLF \o headers \o CRLF \o content \o CRLF

\* format!("{}/{} {}\r\n{}\r\n{}", scheme, version, status, headers, content)
format_response(scheme, version, status, headers, content) ==
    scheme \o SLASH \o version \o SP \o status \o CRLF \o headers \o CRLF \o content

Response_to_string(self) ==
    LET headers == fold_headers(<<>>, self.headers)
    IN  format_response(self.scheme, self.version, Status_to_string(self.status),
                        headers, self.content)

----------------------------------------------------------------------------
(* response.rs: parse                                                      *)

\* Mutant of Response_parse_protocol: an empty scheme or version is an error.
Response_parse_protocol_nonempty(line) ==
    LET parser_err == Err("ParserError", "Invalid protocol format")
        parts == split(line, SLASH)
        scheme == nth_next(parts, 1)
        version == nth_next(parts, 2)
    IN  IF scheme = None \/ scheme = Some(<<>>) THEN parser_err
        ELSE IF version = None \/ version = Some(<<>>) THEN parser_err
        ELSE Ok([scheme |-> scheme[1], version |-> version[1]])

Response_parse_protocol(line) ==
    LET parser_err == Err("ParserError", "Invalid protocol format")
        parts == split(line, SLASH)
        scheme == nth_next(parts, 1)
        version == nth_next(parts, 2)
    IN  IF scheme = None THEN parser_err
        ELSE IF version = None THEN parser_err
        ELSE Ok([scheme |-> scheme[1], version |-> version[1]])

Response_parse_header(line) ==
    LET parser_err == Err("ParserError", "Invalid header format")
        parts == split(line, COLON_SP)
        key == nth_next(parts, 1)
        value == nth_next(parts, 2)
    IN  IF key = None THEN parser_err
        ELSE IF value = None THEN parser_err
        ELSE Ok(Header_new(key[1], value[1]))

\* Mutant of collect_headers: collection stops at the first line that is not a
\* header.
RECURSIVE collect_headers_until_err(_)
collect_headers_until_err(lines) ==
    IF lines = <<>> THEN <<>>
    ELSE LET h == Response_parse_header(Head(lines))
         IN  IF h.ok THEN <<h.val>> \o collect_headers_until_err(Tail(lines)) ELSE <<>>

\* lines.flat_map(|h| Self::parse_header(h)).collect(): a Result iterates over
\* its Ok value and over nothing when it is Err.
RECURSIVE collect_headers(_)
collect_headers(lines) ==
    IF lines = <<>> THEN <<>>
    ELSE LET h == Response_parse_header(Head(lines))
         IN  (IF h.ok THEN <<h.val>> ELSE <<>>) \o collect_headers(Tail(lines))

\* The head and the body of the buffer: the first and the second piece of
\* buffer.split("\r\n\r\n"), the second defaulting to "".
split_body(buffer) ==
    LET body_parts == split(buffer, CRLFCRLF)
        hpart == nth_next(body_parts, 1)
        body == nth_next(body_parts, 2)
    IN  [hpart |-> hpart, body |-> IF body = None THEN <<>> ELSE body[1]]

\* Mutant of parsed_response: the status decoded from the start line is kept.
parsed_response_decoded(scheme, version, status, headers, body) ==
    [scheme |-> scheme, version |-> version, status |-> status,
     headers |-> headers, content |-> body]

\* The Response literal parse returns.
parsed_response(scheme, version, status, headers, body) ==
    [scheme |-> scheme, version |-> version, status |-> "Ok",
     headers |-> headers, content |-> body]

Response_parse(buffer) ==
    LET parser_err == Err("ParserError", "Invalid response format")
        bp == split_body(buffer)
    IN  IF bp.hpart = None THEN parser_err
        ELSE
        LET parts == split(bp.hpart[1], CRLF)
            start_line == nth_next(parts, 1)
        IN  IF start_line = None THEN parser_err
            ELSE
            LET line_parts == split(start_line[1], SP)
                protocol == nth_next(line_parts, 1)
            IN  IF protocol = None THEN parser_err
                ELSE
                LET proto == Response_parse_protocol(protocol[1])
                    status_code == nth_next(line_parts, 2)
                IN  IF ~proto.ok THEN proto
                    ELSE IF status_code = None THEN parser_err
                    ELSE
                    LET status == Status_from_str(status_code[1])
                    IN  IF ~status.ok THEN parser_err
                        ELSE Ok(parsed_response(
                                    proto.val.scheme, proto.val.version, status.val,
                                    collect_headers(Tail(parts)), bp.body))

----------------------------------------------------------------------------
(* Inputs.                                                                 *)

BoundedSeq(S, n) == UNION {[1..k -> S] : k \in 0..n}

RECURSIVE Flatten(_)
Flatten(ss) == IF ss = <<>> THEN <<>> ELSE Head(ss) \o Flatten(Tail(ss))

\* The body of the tests in response.rs (89 bytes).
HelloWorldHtml ==
    <<"<", "h", "t", "m", "l", ">", "<", "h", "e", "a", "d", ">", "<", "t", "i", "t", "l", "e", ">", "H", "e", "l", "l", "o", ",", " ", "w", "o", "r", "l", "d", "!", "<", "/", "t", "i", "t", "l", "e", ">", "<", "/", "h", "e", "a", "d", ">", "<", "b", "o", "d", "y", ">", "<", "h", "1", ">", "H", "e", "l", "l", "o", ",", " ", "w", "o", "r", "l", "d", "!", "<", "/", "h", "1", ">", "<", "/", "b", "o", "d", "y", ">", "<", "/", "h", "t", "m", "l", ">">>

BodyChunks == {<<"a", EAcute>>, CRLF}

Contents ==
    {Flatten(cs) : cs \in BoundedSeq(BodyChunks, MaxChunks)} \cup {HelloWorldHtml}

ContentTypes == {<<"t", "e", "x", "t", "/", "p", "l", "a", "i", "n">>}

HeaderInputs ==
    {Header_new(<<"K">>, <<"v">>), Header_new(<<"K">>, <<"v", ":", " ", "w">>)}

CookieInputs == {<<"i", "d", "=", "1">>}

\* Texts a peer may send: a start line, then up to MaxLines further lines,
\* each introduced by CRLF (an empty line makes a CRLF CRLF).
Protocols == {<<"H", "T", "T", "P">>, <<"/">>, <<"H", "/", "1", "/", "2">>}

StartRests ==
    {<<>>, SP, <<" ", "2", "0", "0">>, <<" ", "9", "9", "9">>,
     <<" ", " ", "2", "0", "0">>, <<" ", "2", "0", "0", "O", "K">>}

StartLines ==
    {<<"H", "T", "T", "P", "/", "1", ".", "1">> \o SP \o Status_to_string(s) : s \in Status}
        \cup {p \o t : p \in Protocols, t \in StartRests}
        \cup {<<"H", "T", "T", "P", "/", "1", ".", "1", " ", "9", "9", "9">>}

WireLines == {<<>>, <<"K", ":", " ", "v">>, <<"b", "a", "d">>}

RECURSIVE JoinLines(_)
JoinLines(ls) == IF ls = <<>> THEN <<>> ELSE CRLF \o Head(ls) \o JoinLines(Tail(ls))

\* Texts handed to Status::from_str.
TokenChars == {"0", "1", "2", "3", "4", "5", " ", "a"}

NoResult == Err("none", "")

----------------------------------------------------------------------------
(* The caller: builds a Response, serialises it, parses a text.            *)

Init ==
    /\ phase = "idle"
    /\ resp = Response_empty
    /\ made = [op |-> "none", content |-> <<>>, content_type |-> <<>>]
    /\ base = Response_empty
    /\ pushed = <<>>
    /\ last_status = "Ok"
    /\ sent = FALSE
    /\ wire = <<>>
    /\ result = NoResult
    /\ code_in = <<>>
    /\ code_out = NoResult

\* A factory call returned r.
Made(op, content, content_type, r) ==
    /\ phase' = "built"
    /\ resp' = r
    /\ made' = [op |-> op, content |-> content, content_type |-> content_type]
    /\ base' = r
    /\ pushed' = <<>>
    /\ last_status' = "Ok"
    /\ sent' = FALSE
    /\ wire' = <<>>
    /\ result' = NoResult
    /\ UNCHANGED <<code_in, code_out>>

Empty ==
    /\ phase = "idle"
    /\ Made("empty", <<>>, <<>>, Response_empty)

Body ==
    /\ phase = "idle"
    /\ \E c \in Contents : Made("body", c, <<>>, Response_body(c))

Content ==
    /\ phase = "idle"
    /\ \E c \in Contents, t \in ContentTypes :
            Made("content", c, t, Response_content(c, t))

Html ==
    /\ phase = "idle"
    /\ \E c \in Contents : Made("html", c, <<>>, Response_html(c))

Json ==
    /\ phase = "idle"
    /\ \E c \in Contents : Made("json", c, <<>>, Response_json(c))

SetStatus ==
    /\ phase = "built"
    /\ \E s \in Status :
        /\ resp' = Response_status(resp, s)
        /\ last_status' = s
    /\ UNCHANGED <<phase, made, base, pushed, sent, wire, result, code_in, code_out>>

AddHeader ==
    /\ phase = "built"
    /\ Len(pushed) < MaxHeaders
    /\ \E h \in HeaderInputs :
        /\ resp' = Response_header(resp, h)
        /\ pushed' = Append(pushed, h)
    /\ UNCHANGED <<phase, made, base, last_status, sent, wire, result, code_in, code_out>>

AddCookie ==
    /\ phase = "built"
    /\ Len(pushed) < MaxHeaders
    /\ \E c \in CookieInputs :
        /\ resp' = Response_cookie(resp, c)
        /\ pushed' = Append(pushed, Header_new(<<"S", "e", "t", "-", "C", "o", "o", "k", "i", "e">>, c))
    /\ UNCHANGED <<phase, made, base, last_status, sent, wire, result, code_in, code_out>>

Serialize ==
    /\ phase = "built"
    /\ wire' = Response_to_string(resp)
    /\ sent' = TRUE
    /\ phase' = "serialized"
    /\ UNCHANGED <<resp, made, base, pushed, last_status, result, code_in, code_out>>

Receive ==
    /\ phase = "idle"
    /\ \E sl \in StartLines, ls \in BoundedSeq(WireLines, MaxLines) :
            wire' = sl \o JoinLines(ls)
    /\ sent' = FALSE
    /\ phase' = "received"
    /\ UNCHANGED <<resp, made, base, pushed, last_status, result, code_in, code_out>>

Parse ==
    /\ phase \in {"serialized", "received"}
    /\ result' = Response_parse(wire)
    /\ phase' = "parsed"
    /\ UNCHANGED <<resp, made, base, pushed, last_status, sent, wire, code_in, code_out>>

FromStr ==
    /\ phase = "idle"
    /\ \E t \in BoundedSeq(TokenChars, MaxTokenLen) :
        /\ code_in' = t
        /\ code_out' = Status_from_str(t)
    /\ phase' = "status"
    /\ UNCHANGED <<resp, made, base, pushed, last_status, sent, wire, result>>

Next ==
    \/ Empty
    \/ Body
    \/ Content
    \/ Html
    \/ Json
    \/ SetStatus
    \/ AddHeader
    \/ AddCookie
    \/ Serialize
    \/ Receive
    \/ Parse
    \/ FromStr

Spec == Init /\ [][Next]_vars

----------------------------------------------------------------------------
(* Vocabulary of the properties.  These definitions say what a text        *)
(* contains; they do not go through split.                                 *)

Occurrences(s, pat) ==
    {i \in 1..(Len(s) - Len(pat) + 1) : \A k \in 1..Len(pat) : s[i + k - 1] = pat[k]}

HasPat(s, pat) == Occurrences(s, pat) # {}

\* The text before the first occurrence of pat (all of s when there is none).
Before(s, pat) ==
    LET occ == Occurrences(s, pat)
    IN  IF occ = {} THEN s
        ELSE SubSeq(s, 1, (CHOOSE i \in occ : \A j \in occ : i <= j) - 1)

\* The text after the first occurrence of pat (empty when there is none).
After(s, pat) ==
    LET occ == Occurrences(s, pat)
    IN  IF occ = {} THEN <<>>
        ELSE SubSeq(s, (CHOOSE i \in occ : \A j \in occ : i <= j) + Len(pat), Len(s))

\* The lines of a text: the texts between its CRLFs.
RECURSIVE LinesOf(_)
LinesOf(s) ==
    IF HasPat(s, CRLF) THEN <<Before(s, CRLF)>> \o LinesOf(After(s, CRLF)) ELSE <<s>>

HasColonSp(line) == HasPat(line, COLON_SP)

\* The value of a text of decimal digits, -1 for any other text.
DigitValue(c) ==
    CASE c = "0" -> 0 [] c = "1" -> 1 [] c = "2" -> 2 [] c = "3" -> 3 [] c = "4" -> 4
      [] c = "5" -> 5 [] c = "6" -> 6 [] c = "7" -> 7 [] c = "8" -> 8 [] c = "9" -> 9
      [] OTHER -> -1

RECURSIVE DecimalValue(_)
DecimalValue(s) ==
    IF s = <<>> THEN -1
    ELSE IF DigitValue(s[Len(s)]) < 0 THEN -1
    ELSE IF Len(s) = 1 THEN DigitValue(s[1])
    ELSE LET hi == DecimalValue(SubSeq(s, 1, Len(s) - 1))
         IN  IF hi < 0 THEN -1 ELSE 10 * hi + DigitValue(s[Len(s)])

\* s is the decimal string of the natural number n.
IsDecimalOf(s, n) ==
    /\ DecimalValue(s) = n
    /\ Len(s) > 1 => s[1] # "0"

\* The number of bytes of the UTF-8 encoding of a text.
ByteLength(s) == Len(s) + Cardinality({i \in 1..Len(s) : s[i] = EAcute})

\* The head of a wire text, its start line, the first two space-separated
\* tokens of the start line, and the lines after the start line.
WireParts(w) ==
    LET head == Before(w, CRLFCRLF)
        start == Before(head, CRLF)
    IN  [head |-> head,
         start |-> start,
         protocol |-> Before(start, SP),
         has_code |-> HasPat(start, SP),
         code |-> Before(After(start, SP), SP),
         header_lines |-> Tail(LinesOf(head))]

HeaderLinesOf(w) == WireParts(w).header_lines

IsSupportedCode(t) == \E s \in Status : IsDecimalOf(t, Status_code(s))

StartLineRejected(w) ==
    LET p == WireParts(w)
    IN  \/ ~HasPat(p.protocol, SLASH)
        \/ ~p.has_code
        \/ ~IsSupportedCode(p.code)

----------------------------------------------------------------------------
(* C1: to_string is scheme "/" version " " status CRLF, each header's      *)
(* rendering followed by CRLF in list order, one more CRLF, then the       *)
(* content unchanged, and nothing after the content.                       *)

RECURSIVE RenderedHeaders(_)
RenderedHeaders(hs) ==
    IF hs = <<>> THEN <<>>
    ELSE Header_to_string(Head(hs)) \o CRLF \o RenderedHeaders(Tail(hs))

C1_ToStringFormat ==
    phase = "serialized" =>
        wire = resp.scheme \o <<"/">> \o resp.version \o <<" ">>
                 \o Status_to_string(resp.status) \o CRLF
                 \o RenderedHeaders(resp.headers)
                 \o CRLF
                 \o resp.content

\* The text expected by tests::response_format.
ResponseFormatExpected ==
    <<"H", "T", "T", "P", "/", "1", ".", "1", " ", "3", "0", "3", " ", "S", "E", "E", " ", "O", "T", "H", "E", "R", "\r", "\n", "C", "o", "n", "t", "e", "n", "t", "-", "T", "y", "p", "e", ":", " ", "t", "e", "x", "t", "/", "h", "t", "m", "l", "\r", "\n", "C", "o", "n", "t", "e", "n", "t", "-", "L", "e", "n", "g", "t", "h", ":", " ", "8", "9", "\r", "\n", "\r", "\n">>
        \o HelloWorldHtml

C1_Witness ==
    /\ phase = "serialized"
    /\ resp.status = "SeeOther"
    /\ wire = ResponseFormatExpected

(* C2: parse(r.to_string()) is Ok with r's scheme, version, header list    *)
(* and content, for every r a factory and a builder chain produce.         *)

C2_RoundTrip ==
    (phase = "parsed" /\ sent) =>
        /\ result.ok
        /\ result.val.scheme = resp.scheme
        /\ result.val.version = resp.version
        /\ result.val.headers = resp.headers
        /\ result.val.content = resp.content

(* C3: whenever parse returns Ok(resp), resp.status is Status::Ok,         *)
(* whatever supported code was on the wire.                                *)

C3_ParsedStatusIsOk ==
    (phase = "parsed" /\ result.ok) => result.val.status = "Ok"

C3_Witness ==
    /\ phase = "parsed"
    /\ sent
    /\ resp.status = "NotFound"
    /\ WireParts(wire).code = <<"4", "0", "4">>
    /\ result.ok

(* C4: after any builder chain the header list is the factory's header     *)
(* list followed by the headers handed to header() and cookie(), in call   *)
(* order; scheme, version and content are the factory's; the status is     *)
(* the one last handed to status().                                        *)

C4_BuilderAppendsOnly ==
    phase \in {"built", "serialized", "parsed"} /\ made.op # "none" =>
        /\ resp.headers = base.headers \o pushed
        /\ resp.scheme = base.scheme
        /\ resp.version = base.version
        /\ resp.content = base.content
        /\ resp.status = last_status

C4_Witness ==
    /\ phase = "built"
    /\ Len(base.headers) = 2
    /\ Len(pushed) = 2
    /\ pushed[1].key = pushed[2].key
    /\ pushed[1].value # pushed[2].value
    /\ last_status = "Forbidden"
    /\ Len(resp.headers) = 4

(* C5: content(C, T) is HTTP/1.1, Ok, content C, with exactly the headers  *)
(* Content-Type: T and Content-Length: <decimal byte length of C>, in      *)
(* that order; html(C) and json(C) are content(C, "text/html") and         *)
(* content(C, "application/json").                                         *)

ContentTypeOfCall ==
    CASE made.op = "html" -> <<"t", "e", "x", "t", "/", "h", "t", "m", "l">>
      [] made.op = "json" -> <<"a", "p", "p", "l", "i", "c", "a", "t", "i", "o", "n", "/", "j", "s", "o", "n">>
      [] OTHER -> made.content_type

C5_ContentFactory ==
    (phase = "built" /\ resp = base /\ made.op \in {"content", "html", "json"}) =>
        /\ resp.scheme = <<"H", "T", "T", "P">>
        /\ resp.version = <<"1", ".", "1">>
        /\ resp.status = "Ok"
        /\ resp.content = made.content
        /\ Len(resp.headers) = 2
        /\ resp.headers[1].key = <<"C", "o", "n", "t", "e", "n", "t", "-", "T", "y", "p", "e">>
        /\ resp.headers[1].value = ContentTypeOfCall
        /\ resp.headers[2].key =
                <<"C", "o", "n", "t", "e", "n", "t", "-", "L", "e", "n", "g", "t", "h">>
        /\ IsDecimalOf(resp.headers[2].value, ByteLength(made.content))
        /\ made.op = "html" => resp = Response_content(made.content, <<"t", "e", "x", "t", "/", "h", "t", "m", "l">>)
        /\ made.op = "json" =>
                resp = Response_content(made.content,
                    <<"a", "p", "p", "l", "i", "c", "a", "t", "i", "o", "n", "/", "j", "s", "o", "n">>)

C5_Witness ==
    /\ phase = "built"
    /\ resp = base
    /\ made.op = "html"
    /\ EAcute \in {made.content[i] : i \in 1..Len(made.content)}
    /\ resp.headers[2].value = <<"3">>
    /\ Len(made.content) = 2

(* C6: from_str(t) is Ok(s) exactly when t is the decimal string of        *)
(* s.code(); codes are distinct per variant; the code token of             *)
(* s.to_string() parses back to s; every other text is a ParserError.      *)

C6_FromStr ==
    phase = "status" =>
        /\ \A s, t \in Status : Status_code(s) = Status_code(t) => s = t
        /\ \A s \in Status : Status_from_str(Before(Status_to_string(s), SP)) = Ok(s)
        /\ code_out.ok <=> IsSupportedCode(code_in)
        /\ code_out.ok =>
            /\ code_out.val \in Status
            /\ IsDecimalOf(code_in, Status_code(code_out.val))
        /\ ~code_out.ok =>
            /\ code_out.err_type = "ParserError"
            /\ DOMAIN code_out = {"ok", "err_type", "msg"}

C6_Witness ==
    /\ phase = "status"
    /\ code_in = <<"4", "0", "4">>
    /\ code_out = Ok("NotFound")

(* C7: parse returns Err, of kind ParserError and with no Response,        *)
(* exactly when the protocol token of the start line has no "/", or the    *)
(* start line has no second space-separated token, or that token is not    *)
(* a supported status code; every other text parses.                       *)

C7_ParseErrors ==
    phase = "parsed" =>
        /\ ~result.ok <=> StartLineRejected(wire)
        /\ ~result.ok =>
            /\ result.err_type = "ParserError"
            /\ DOMAIN result = {"ok", "err_type", "msg"}

C7_Witness ==
    /\ phase = "parsed"
    /\ ~sent
    /\ WireParts(wire).protocol = <<"H", "T", "T", "P", "/", "1", ".", "1">>
    /\ WireParts(wire).code = <<"9", "9", "9">>
    /\ HeaderLinesOf(wire) # <<>>
    /\ ~result.ok

(* C8: a header line without ": " never fails the parse and adds no        *)
(* entry: the header list has one entry per header line containing ": ",   *)
(* in the order of those lines.                                            *)

C8_MalformedHeaderLinesSkipped ==
    phase = "parsed" =>
        LET good == SelectSeq(HeaderLinesOf(wire), HasColonSp)
        IN  /\ ~StartLineRejected(wire) => result.ok
            /\ result.ok =>
                /\ Len(result.val.headers) = Len(good)
                /\ \A i \in 1..Len(good) :
                    LET h == result.val.headers[i]
                        rest == After(good[i], COLON_SP)
                    IN  /\ h.key = Before(good[i], COLON_SP)
                        /\ Len(h.value) <= Len(rest)
                        /\ h.value = SubSeq(rest, 1, Len(h.value))

C8_Witness ==
    /\ phase = "parsed"
    /\ HeaderLinesOf(wire) = <<<<"K", ":", " ", "v">>, <<"b", "a", "d">>, <<"K", ":", " ", "v">>>>
    /\ result.ok
    /\ Len(result.val.headers) = 2

(* C9: the parsed content is all of the text after the first CRLF CRLF of  *)
(* the input, later CRLF CRLF included, and empty when there is none.      *)

C9_ContentIsRestOfInput ==
    (phase = "parsed" /\ result.ok) => result.val.content = After(wire, CRLFCRLF)

(* C10: for a header line containing ": ", the parsed key is the text      *)
(* before the first ": " and the parsed value is all of the text after     *)
(* it, further ": " included.                                              *)

C10_HeaderValueIsRestOfLine ==
    (phase = "parsed" /\ result.ok) =>
        LET good == SelectSeq(HeaderLinesOf(wire), HasColonSp)
        IN  /\ Len(result.val.headers) = Len(good)
            /\ \A i \in 1..Len(good) :
                /\ result.val.headers[i].key = Before(good[i], COLON_SP)
                /\ result.val.headers[i].value = After(good[i], COLON_SP)

====
